---- MODULE Spec2Model ----
(***************************************************************************)
(* Mutual fund ranking (src/ranking.py): main() fetches a CSV table of     *)
(* funds, preprocess_data filters and renames it, the table is grouped by  *)
(* category, calculate_scores adds percentile based scores to every group, *)
(* the groups are concatenated and written to a spreadsheet.               *)
(*                                                                         *)
(* Numbers.  Metric values are integers.  A percentile and a score is an   *)
(* exact fraction [num, den] in lowest terms; the missing value (pandas    *)
(* NaN) of a score is the fraction with den = 0, and of a metric the value *)
(* NaN below.  Python computes the scores in IEEE doubles; the fractions   *)
(* are the real numbers those doubles round.                               *)
(***************************************************************************)
EXTENDS Integers, Sequences, FiniteSets, TLC

VARIABLES
    responses,   \* the CSV responses the API returns, one per run of main()
    run,         \* number of runs of main() started
    pc,          \* position in main()
    df,          \* main(): df
    category_dataframes,                    \* main(): the groupby, in key order
    category_dataframes_with_total_scores,  \* main(): the dict of scored groups
    excel_df,    \* main(): excel_df
    files,       \* the spreadsheets written so far, oldest first
    stdout       \* what each finished run printed

vars == <<responses, run, pc, df, category_dataframes,
          category_dataframes_with_total_scores, excel_df, files, stdout>>

----------------------------------------------------------------------------
(* Bounds of the model *)

MaxLen == 2           \* rows of a one-category table of any fit rows (CalcSpec)
MaxRows == 1          \* rows of a two-category table of any fit rows (PairSpec)
MaxUniformRows == 3   \* rows of a table of uniform rows (CalcSpec, PairSpec)
MaxRawRows == 2       \* rows of a raw table (Spec)
MaxRawVal == 1        \* defined metric values of a raw table are 1..MaxRawVal (Spec)

\* the values of a metric of a fit row: a low and a high one
Levels == {1, 2}

\* the values of a uniform row of a one-category table: three distinct ones
UniformLevels == {1, 2, 3}

(* Program constants *)

MinNav == 1000    \* fund_total_nav_ruppes_millions >= 1000
W_one_year_return == 30             \* 0.30, in hundredths
W_three_years_return_annual == 20   \* 0.20
W_five_years_return_annual == 30    \* 0.30
W_three_years_sharpe == 8           \* 0.08
W_five_years_sharpe == 12           \* 0.12
StatusOK == 200

----------------------------------------------------------------------------
(* Values *)

NaN == 0 - 1          \* a missing metric value; never read as a number
NaC == "<NaN>"        \* a missing category_name

isna(x) == x = NaN

RECURSIVE GCD(_, _)
GCD(a, b) == IF b = 0 THEN a ELSE GCD(b, a % b)

Frac(n, d) == LET g == GCD(n, d) IN [num |-> n \div g, den |-> d \div g]

nan == [num |-> 0, den |-> 0]

isnan(r) == r.den = 0

\* r * w, w a weight in hundredths; nan * w = nan
Times(r, w) == IF isnan(r) THEN nan ELSE Frac(r.num * w, r.den * 100)

\* a + b; nan + b = a + nan = nan
Plus(a, b) ==
    IF isnan(a) \/ isnan(b) THEN nan
    ELSE Frac(a.num * b.den + b.num * a.den, a.den * b.den)

----------------------------------------------------------------------------
(* Tables: a table is a sequence of rows, a row a record of its columns *)

Metrics == {"one_year_return", "three_years_return_annual",
            "five_years_return_annual", "three_years_sharpe",
            "five_years_sharpe"}

RawColumns == Metrics \cup {"category_name", "fund_total_nav_ruppes_millions"}

ScoreColumns == {"return_score_max_eighty", "risk_score_max_twenty", "total_score"}

Column(t, c) == [i \in 1..Len(t) |-> t[i][c]]

\* the row r with column c set to v
WithColumn(r, c, v) == [k \in DOMAIN r \cup {c} |-> IF k = c THEN v ELSE r[k]]

\* the row r without column c
WithoutColumn(r, c) == [k \in DOMAIN r \ {c} |-> r[k]]

\* only the first frame is kept
Concat_first(ts) == IF ts = <<>> THEN <<>> ELSE Head(ts)

RECURSIVE Concat(_)
Concat(ts) == IF ts = <<>> THEN <<>> ELSE Head(ts) \o Concat(Tail(ts))

\* pd.read_csv: the rows of the text under a RangeIndex 0..n-1
read_csv(text) == [i \in 1..Len(text) |-> WithColumn(text[i], "index", i - 1)]

----------------------------------------------------------------------------
(* preprocess_data.  Of the 26 columns it keeps, the model carries the five
   scored metrics, category_name and fund_total_nav_ruppes_millions; the
   others are carried through like the latter. *)

category_values(x) ==
    CASE  x = "Balanced Allocation" -> "balanced_allocation"
    [] x = "Dynamic Bond" -> "dynamic_bond"
    [] x = "ELSS (Tax Savings)" -> "elss"
    [] x = "Flexi Cap" -> "flexi_cap"
    [] x = "Focused Fund" -> "focused_fund"
    [] x = "Liquid" -> "liquid"
    [] x = "Equity - Other" -> "equity_other"
    [] x = "Fund of Funds" -> "fund_of_fund"
    [] x = "Arbitrage Fund" -> "arbitrage_fund"
    [] x = "Children" -> "children"
    [] x = "Dynamic Asset Allocation" -> "dynamic_asset_allocation"
    [] x = "Sector - Financial Services" -> "sector_financial_services"
    [] x = "Banking & PSU" -> "banking_psu"
    [] x = "Corporate Bond" -> "corporate_bond"
    [] x = "Credit Risk" -> "credit_risk"
    [] x = "Other Bond" -> "other_bond"
    [] x = "Index Funds - Fixed Income" -> "index_funds_fixed_income"
    [] x = "Sector - Technology" -> "sector_technology"
    [] x = "Dividend Yield" -> "dividend_yield"
    [] x = "Large & Mid-Cap" -> "large_mid_cap"
    [] x = "Aggressive Allocation" -> "aggressive_allocation"
    [] x = "Equity Savings" -> "equity_savings"
    [] x = "Equity - ESG" -> "equity_esg"
    [] x = "Fixed Maturity Ultrashort Bond" -> "fixed_maturity_ultrashort_bond"
    [] x = "Fixed Maturity Intermediate-Term Bond" -> "fixed_maturity_intermediate_term_bond"
    [] x = "Fixed Maturity Short-Term Bond" -> "fixed_maturity_short_term_bond"
    [] x = "Floating Rate" -> "floating_rate"
    [] x = "Large-Cap" -> "large_cap"
    [] x = "Global - Other" -> "global_other"
    [] x = "Sector - Precious Metals" -> "sector_precious_metals"
    [] x = "Government Bond" -> "government_bond"
    [] x = "Medium to Long Duration" -> "medium_long_duration"
    [] x = "Equity - Consumption" -> "equity_consumption"
    [] x = "Equity - Infrastructure" -> "equity_infrastructure"
    [] x = "Long Duration" -> "long_duration"
    [] x = "Low Duration" -> "low_duration"
    [] x = "Medium Duration" -> "medium_duration"
    [] x = "Mid-Cap" -> "mid_cap"
    [] x = "Money Market" -> "money_market"
    [] x = "Multi Asset Allocation" -> "multi_asset_allocation"
    [] x = "Multi-Cap" -> "multi_cap"
    [] x = "Index Funds" -> "index_funds"
    [] x = "Overnight" -> "overnight"
    [] x = "Sector - Healthcare" -> "sector_healthcare"
    [] x = "Value" -> "value"
    [] x = "Conservative Allocation" -> "conservative_allocation"
    [] x = "Retirement" -> "retirement"
    [] x = "Ultra Short Duration" -> "ultra_short_duration"
    [] x = "Short Duration" -> "short_duration"
    [] x = "Small-Cap" -> "small_cap"
    [] x = "10 yr Government Bond" -> "ten_yr_government_bond"
    [] x = "US Large-Cap Blend Equity" -> "us_large_cap_blend_equity"
    [] x = "Sector - FMCG" -> "sector_fmcg"
    [] x = "Contra" -> "contra"
    [] x = "Sector - Energy" -> "sector_energy"
    [] x = "Canadian Focused Equity" -> "canadian_focused_equity"
    [] OTHER -> x

\* the canonical labels in the order groupby sorts its keys (tables of the
\* model hold labels of category_values only)
SortedLabels ==
    <<"aggressive_allocation",
    "arbitrage_fund",
    "balanced_allocation",
    "banking_psu",
    "canadian_focused_equity",
    "children",
    "conservative_allocation",
    "contra",
    "corporate_bond",
    "credit_risk",
    "dividend_yield",
    "dynamic_asset_allocation",
    "dynamic_bond",
    "elss",
    "equity_consumption",
    "equity_esg",
    "equity_infrastructure",
    "equity_other",
    "equity_savings",
    "fixed_maturity_intermediate_term_bond",
    "fixed_maturity_short_term_bond",
    "fixed_maturity_ultrashort_bond",
    "flexi_cap",
    "floating_rate",
    "focused_fund",
    "fund_of_fund",
    "global_other",
    "government_bond",
    "index_funds",
    "index_funds_fixed_income",
    "large_cap",
    "large_mid_cap",
    "liquid",
    "long_duration",
    "low_duration",
    "medium_duration",
    "medium_long_duration",
    "mid_cap",
    "money_market",
    "multi_asset_allocation",
    "multi_cap",
    "other_bond",
    "overnight",
    "retirement",
    "sector_energy",
    "sector_financial_services",
    "sector_fmcg",
    "sector_healthcare",
    "sector_precious_metals",
    "sector_technology",
    "short_duration",
    "small_cap",
    "ten_yr_government_bond",
    "ultra_short_duration",
    "us_large_cap_blend_equity",
    "value">>

Keep(r) ==
    /\ r["fund_total_nav_ruppes_millions"] >= MinNav
    /\ ~isna(r["five_years_return_annual"])
    /\ ~isna(r["three_years_sharpe"])
    /\ r["category_name"] # NaC

preprocess_data(t) ==
    LET kept == SelectSeq(t, Keep)
    IN  [i \in 1..Len(kept) |->
            WithColumn(kept[i], "category_name",
                       category_values(kept[i]["category_name"]))]

----------------------------------------------------------------------------
(* calculate_scores *)

\* kind = 'weak' in place of 'rank'
percentileofscore_weak(a, score) ==
    LET n == Len(a)
        right == Cardinality({i \in 1..n : a[i] <= score})
    IN  IF n = 0 \/ isna(score) \/ (\E i \in 1..n : isna(a[i])) THEN nan
        ELSE Frac(right * 100, n)

\* kind = 'mean' in place of 'rank'
percentileofscore_mean(a, score) ==
    LET n == Len(a)
        left == Cardinality({i \in 1..n : a[i] < score})
        right == Cardinality({i \in 1..n : a[i] <= score})
    IN  IF n = 0 \/ isna(score) \/ (\E i \in 1..n : isna(a[i])) THEN nan
        ELSE Frac((left + right) * 50, n)

\* kind = 'strict' in place of 'rank'
percentileofscore_strict(a, score) ==
    LET n == Len(a)
        left == Cardinality({i \in 1..n : a[i] < score})
    IN  IF n = 0 \/ isna(score) \/ (\E i \in 1..n : isna(a[i])) THEN nan
        ELSE Frac(left * 100, n)

\* the comparisons turned round: lower values rank higher
percentileofscore_descending(a, score) ==
    LET n == Len(a)
        left == Cardinality({i \in 1..n : a[i] > score})
        right == Cardinality({i \in 1..n : a[i] >= score})
        plus1 == IF left < right THEN 1 ELSE 0
    IN  IF n = 0 \/ isna(score) \/ (\E i \in 1..n : isna(a[i])) THEN nan
        ELSE Frac((left + right + plus1) * 50, n)

\* scipy.stats.percentileofscore(a, score) as the source calls it, with the
\* defaults kind = 'rank' and nan_policy = 'propagate': the average of the
\* strict and the weak rank of the score, nan when the population or the
\* score has a missing value
percentileofscore(a, score) ==
    LET n == Len(a)
        left == Cardinality({i \in 1..n : a[i] < score})
        right == Cardinality({i \in 1..n : a[i] <= score})
        plus1 == IF left < right THEN 1 ELSE 0
    IN  IF n = 0 \/ isna(score) \/ (\E i \in 1..n : isna(a[i])) THEN nan
        ELSE Frac((left + right + plus1) * 50, n)

\* the population cut at the row itself: a percentile that depends on the
\* order of the rows
Percentile_expanding(category_df, c, i) ==
    percentileofscore(SubSeq(Column(category_df, c), 1, i), category_df[i][c])

\* category_df[c].apply(lambda x: percentileofscore(category_df[c], x))[i]
Percentile(category_df, c, i) ==
    percentileofscore(Column(category_df, c), category_df[i][c])

return_score_by_category(category_df) ==
    [i \in 1..Len(category_df) |->
        WithColumn(category_df[i], "return_score_max_eighty",
            Plus(Plus(Times(Percentile(category_df, "one_year_return", i),
                            W_one_year_return),
                      Times(Percentile(category_df, "three_years_return_annual", i),
                            W_three_years_return_annual)),
                 Times(Percentile(category_df, "five_years_return_annual", i),
                       W_five_years_return_annual)))]

\* the weights of the return score reused for the risk score
risk_score_by_category_return_weights(category_df) ==
    [i \in 1..Len(category_df) |->
        WithColumn(category_df[i], "risk_score_max_twenty",
            Plus(Times(Percentile(category_df, "three_years_sharpe", i),
                       W_one_year_return),
                 Times(Percentile(category_df, "five_years_sharpe", i),
                       W_three_years_return_annual)))]

risk_score_by_category(category_df) ==
    [i \in 1..Len(category_df) |->
        WithColumn(category_df[i], "risk_score_max_twenty",
            Plus(Times(Percentile(category_df, "three_years_sharpe", i),
                       W_three_years_sharpe),
                 Times(Percentile(category_df, "five_years_sharpe", i),
                       W_five_years_sharpe)))]

total_score(category_df) ==
    LET with_return == return_score_by_category(category_df)
        with_risk == risk_score_by_category(with_return)
    IN  [i \in 1..Len(with_risk) |->
            WithColumn(with_risk[i], "total_score",
                Plus(with_risk[i]["risk_score_max_twenty"],
                     with_risk[i]["return_score_max_eighty"]))]

\* the whole table, not the category group, as the population
calculate_scores_whole_table(category_df) ==
    LET scored == total_score(df)
    IN  SelectSeq(scored, LAMBDA r :
            \E i \in 1..Len(category_df) : category_df[i]["index"] = r["index"])

calculate_scores(category_df) == total_score(category_df)

----------------------------------------------------------------------------
(* main *)

\* df.groupby("category_name"): one group per key in sorted key order, the
\* rows of a group in the order of df
groupby(t) ==
    LET present == SelectSeq(SortedLabels,
                       LAMBDA c : \E i \in 1..Len(t) : t[i]["category_name"] = c)
    IN  [k \in 1..Len(present) |->
            [category |-> present[k],
             category_df |-> SelectSeq(t, LAMBDA r : r["category_name"] = present[k])]]

\* to_excel(..., index=False): the rows without the index
to_excel(t) == [i \in 1..Len(t) |-> WithoutColumn(t[i], "index")]

\* df = fetch_data_from_api(url, headers, params), status 200
Fetch ==
    /\ pc \in {"start", "done"}
    /\ run < Len(responses)
    /\ responses[run + 1].status_code = StatusOK
    /\ run' = run + 1
    /\ df' = read_csv(responses[run + 1].text)
    /\ category_dataframes' = <<>>
    /\ category_dataframes_with_total_scores' = <<>>
    /\ excel_df' = <<>>
    /\ pc' = "preprocess"
    /\ UNCHANGED <<responses, files, stdout>>

\* fetch_data_from_api raises, main prints the error
FetchFail ==
    /\ pc \in {"start", "done"}
    /\ run < Len(responses)
    /\ responses[run + 1].status_code # StatusOK
    /\ run' = run + 1
    /\ df' = <<>>
    /\ category_dataframes' = <<>>
    /\ category_dataframes_with_total_scores' = <<>>
    /\ excel_df' = <<>>
    /\ stdout' = Append(stdout, "An error occurred")
    /\ pc' = "done"
    /\ UNCHANGED <<responses, files>>

\* df = preprocess_data(df)
Preprocess ==
    /\ pc = "preprocess"
    /\ df' = preprocess_data(df)
    /\ pc' = "groupby"
    /\ UNCHANGED <<responses, run, category_dataframes,
                   category_dataframes_with_total_scores, excel_df, files, stdout>>

\* category_dataframes = df.groupby("category_name")
GroupBy ==
    /\ pc = "groupby"
    /\ category_dataframes' = groupby(df)
    /\ pc' = "score"
    /\ UNCHANGED <<responses, run, df, category_dataframes_with_total_scores,
                   excel_df, files, stdout>>

\* one step of the dict comprehension: the next group is scored
Score ==
    /\ pc = "score"
    /\ Len(category_dataframes_with_total_scores) < Len(category_dataframes)
    /\ LET g == category_dataframes[Len(category_dataframes_with_total_scores) + 1]
       IN  category_dataframes_with_total_scores' =
               Append(category_dataframes_with_total_scores,
                      [category |-> g.category,
                       category_df |-> calculate_scores(g.category_df)])
    /\ UNCHANGED <<responses, run, pc, df, category_dataframes, excel_df,
                   files, stdout>>

\* excel_df = pd.concat(category_dataframes_with_total_scores.values())
ConcatGroups ==
    /\ pc = "score"
    /\ Len(category_dataframes_with_total_scores) = Len(category_dataframes)
    /\ category_dataframes_with_total_scores # <<>>
    /\ excel_df' = Concat([k \in 1..Len(category_dataframes_with_total_scores) |->
                              category_dataframes_with_total_scores[k].category_df])
    /\ pc' = "save"
    /\ UNCHANGED <<responses, run, df, category_dataframes,
                   category_dataframes_with_total_scores, files, stdout>>

\* pd.concat of no frames raises ValueError, main prints the error
ConcatFail ==
    /\ pc = "score"
    /\ category_dataframes = <<>>
    /\ stdout' = Append(stdout, "An error occurred")
    /\ pc' = "done"
    /\ UNCHANGED <<responses, run, df, category_dataframes,
                   category_dataframes_with_total_scores, excel_df, files>>

\* save_to_excel(excel_df, file_name)
Save ==
    /\ pc = "save"
    /\ files' = Append(files, to_excel(excel_df))
    /\ stdout' = Append(stdout, "DataFrame has been written")
    /\ pc' = "done"
    /\ UNCHANGED <<responses, run, df, category_dataframes,
                   category_dataframes_with_total_scores, excel_df>>

Next ==
    \/ Fetch
    \/ FetchFail
    \/ Preprocess
    \/ GroupBy
    \/ Score
    \/ ConcatGroups
    \/ ConcatFail
    \/ Save

----------------------------------------------------------------------------
(* Inputs *)

Seqs(S, n) == UNION {[1..k -> S] : k \in 0..n}

Response(text) == [status_code |-> StatusOK, text |-> text]

Failure == [status_code |-> 500, text |-> <<>>]

\* rows of a raw response: any category, nav and metric may be unfit
RawRows ==
    [{"category_name"} -> {"Liquid", "Value", NaC}]
    \X [{"fund_total_nav_ruppes_millions"} -> {MinNav - 1, MinNav}]
    \X [Metrics -> (1..MaxRawVal) \cup {NaN}]

Row(parts) == parts[1] @@ parts[2] @@ parts[3]

\* rows fit for scoring, of the given raw categories
FitRows(cats) ==
    {Row(p) : p \in [{"category_name"} -> cats]
                    \X [{"fund_total_nav_ruppes_millions"} -> {MinNav}]
                    \X [Metrics -> Levels]}

StartOn(rs) ==
    /\ responses = rs
    /\ run = 0
    /\ pc = "start"
    /\ df = <<>>
    /\ category_dataframes = <<>>
    /\ category_dataframes_with_total_scores = <<>>
    /\ excel_df = <<>>
    /\ files = <<>>
    /\ stdout = <<>>

\* one run on any raw table
Init ==
    \E r \in {Failure}
              \cup {Response(t) : t \in Seqs({Row(p) : p \in RawRows}, MaxRawRows)} :
        StartOn(<<r>>)

Spec == Init /\ [][Next]_vars

\* rows fit for scoring whose five metrics have one value, of the levels
UniformRows(cats, levels) ==
    {Row(p) : p \in [{"category_name"} -> cats]
                    \X [{"fund_total_nav_ruppes_millions"} -> {MinNav}]
                    \X {[m \in Metrics |-> v] : v \in levels}}

\* the one-category tables: every table of at most MaxLen fit rows, and the
\* tables of at most MaxUniformRows uniform rows
CalcTables ==
    Seqs(FitRows({"Liquid"}), MaxLen)
    \cup Seqs(UniformRows({"Liquid"}, UniformLevels), MaxUniformRows)

\* one run on a table of one category, every row fit for scoring
CalcInit ==
    \E r \in {Failure} \cup {Response(t) : t \in CalcTables} : StartOn(<<r>>)

CalcSpec == CalcInit /\ [][Next]_vars

\* the two-category tables: every table of at most MaxRows fit rows, and
\* the tables of at most MaxUniformRows uniform rows
PairTables ==
    Seqs(FitRows({"Liquid", "Value"}), MaxRows)
    \cup Seqs(UniformRows({"Liquid", "Value"}, Levels), MaxUniformRows)

\* the table t with its rows in another order
Permuted(t) ==
    {[i \in 1..Len(t) |-> t[p[i]]] : p \in Permutations(1..Len(t))} \ {t}

\* the table t with one metric of one row raised to the next level
Raised(t) ==
    {[t EXCEPT ![x[1]] = WithColumn(t[x[1]], x[2], t[x[1]][x[2]] + 1)] :
        x \in {y \in (1..Len(t)) \X Metrics : t[y[1]][y[2]] + 1 \in Levels}}

\* the table t with one row removed
Dropped(t) ==
    {[j \in 1..(Len(t) - 1) |-> IF j < i THEN t[j] ELSE t[j + 1]] : i \in 1..Len(t)}

Variants(t) == Permuted(t) \cup Raised(t) \cup Dropped(t)

\* between two runs the data behind the API changes
NewData ==
    /\ pc = "done"
    /\ run = 1
    /\ Len(responses) = 1
    /\ responses[1].status_code = StatusOK
    /\ \E t \in Variants(responses[1].text) :
           responses' = Append(responses, Response(t))
    /\ UNCHANGED <<run, pc, df, category_dataframes,
                   category_dataframes_with_total_scores, excel_df, files, stdout>>

PairInit ==
    \E r \in {Failure} \cup {Response(t) : t \in PairTables} : StartOn(<<r>>)

PairNext ==
    \/ Next
    \/ NewData

\* two runs of main(), the second on a variant of the first run's table
PairSpec == PairInit /\ [][PairNext]_vars

----------------------------------------------------------------------------
(* Reference definitions for the properties *)

\* the whole number k as a fraction
Whole(k) == [num |-> k, den |-> 1]

\* a <= b on numbers; every comparison with nan is false
Leq(a, b) == ~isnan(a) /\ ~isnan(b) /\ a.num * b.den <= b.num * a.den

CountLess(col, x) == Cardinality({i \in DOMAIN col : col[i] < x})

CountLeq(col, x) == Cardinality({i \in DOMAIN col : col[i] <= x})

\* the weak (inclusive) percentile: the share of the population <= x
WeakRank(col, x) == Frac(CountLeq(col, x) * 100, Len(col))

\* the average of the strict and the weak rank of a member x of the population
AverageRank(col, x) == Frac((CountLess(col, x) + CountLeq(col, x) + 1) * 50, Len(col))

\* the scored groups of the run
ScoredGroups ==
    {category_dataframes_with_total_scores[k].category_df :
        k \in DOMAIN category_dataframes_with_total_scores}

Defined(g) == \A i \in 1..Len(g) : \A m \in Metrics : ~isna(g[i][m])

Pct(P(_, _), g, m, i) == P(Column(g, m), g[i][m])

ReturnWith(P(_, _), g, i) ==
    Plus(Plus(Times(Pct(P, g, "one_year_return", i), W_one_year_return),
              Times(Pct(P, g, "three_years_return_annual", i),
                    W_three_years_return_annual)),
         Times(Pct(P, g, "five_years_return_annual", i), W_five_years_return_annual))

RiskWith(P(_, _), g, i) ==
    Plus(Times(Pct(P, g, "three_years_sharpe", i), W_three_years_sharpe),
         Times(Pct(P, g, "five_years_sharpe", i), W_five_years_sharpe))

\* every scored group is scored with the percentile P
ScoredWith(P(_, _)) ==
    \A g \in ScoredGroups : Defined(g) =>
        \A i \in 1..Len(g) :
            /\ \A m \in Metrics : Percentile(g, m, i) = Pct(P, g, m, i)
            /\ g[i]["return_score_max_eighty"] = ReturnWith(P, g, i)
            /\ g[i]["risk_score_max_twenty"] = RiskWith(P, g, i)
            /\ g[i]["total_score"] = Plus(RiskWith(P, g, i), ReturnWith(P, g, i))

HasTie(g, m) == \E i, j \in 1..Len(g) : i # j /\ g[i][m] = g[j][m]

Between(lo, r, hi) == Leq(Whole(lo), r) /\ Leq(r, Whole(hi))

AllIdentical(g) ==
    \A i, j \in 1..Len(g) : \A m \in Metrics : g[i][m] = g[j][m]

AtMax(g, m, i) == \A j \in 1..Len(g) : g[j][m] <= g[i][m]

TiedWith(g, m, i) == Cardinality({j \in 1..Len(g) : g[j][m] = g[i][m]})

C5_SingletonFull ==
    \A g \in ScoredGroups : Defined(g) /\ Len(g) = 1 =>
        /\ \A m \in Metrics : Percentile(g, m, 1) = Whole(100)
        /\ g[1]["return_score_max_eighty"] = Whole(80)
        /\ g[1]["risk_score_max_twenty"] = Whole(20)
        /\ g[1]["total_score"] = Whole(100)

\* a group of size 1 has been scored and written
C5_Witness ==
    /\ pc = "done"
    /\ files # <<>>
    /\ \E g \in ScoredGroups : Len(g) = 1 /\ Defined(g)

Valid(t) ==
    /\ t # <<>>
    /\ \A i \in 1..Len(t) : t[i]["category_name"] # NaC
    /\ Defined(t)

Attributes(r) == [k \in RawColumns |-> r[k]]

Count(t, r) == Cardinality({i \in 1..Len(t) : t[i] = r})

SameBag(s, t) ==
    /\ Len(s) = Len(t)
    /\ \A i \in 1..Len(s) : Count(s, s[i]) = Count(t, s[i])

GroupRows ==
    Concat([k \in 1..Len(category_dataframes) |-> category_dataframes[k].category_df])

\* C7: for a valid table (not empty, every category and metric defined) the
\* groups partition the rows (every row in exactly one group, the group of
\* its category), the concatenated result has every row of the table exactly
\* once with every attribute unchanged and only the three scores added, and
\* the written file has the same rows.
C7_RecordsPreserved ==
    Valid(df) =>
        /\ pc \in {"score", "save", "done"} =>
               /\ SameBag(GroupRows, df)
               /\ \A k \in 1..Len(category_dataframes) :
                      \A j \in 1..Len(category_dataframes[k].category_df) :
                          category_dataframes[k].category_df[j]["category_name"]
                              = category_dataframes[k].category
               /\ \A k, l \in 1..Len(category_dataframes) :
                      category_dataframes[k].category = category_dataframes[l].category
                          => k = l
        /\ pc \in {"save", "done"} =>
               /\ Len(excel_df) = Len(df)
               /\ \A i \in 1..Len(df) :
                      /\ Cardinality({j \in 1..Len(excel_df) :
                             excel_df[j]["index"] = df[i]["index"]}) = 1
                      /\ \A j \in 1..Len(excel_df) :
                             excel_df[j]["index"] = df[i]["index"] =>
                                 /\ DOMAIN excel_df[j] = DOMAIN df[i] \cup ScoreColumns
                                 /\ \A c \in DOMAIN df[i] : excel_df[j][c] = df[i][c]
        /\ pc = "done" =>
               /\ stdout[run] = "DataFrame has been written"
               /\ files # <<>>
               /\ SameBag([j \in 1..Len(excel_df) |-> Attributes(files[Len(files)][j])],
                          [i \in 1..Len(df) |-> Attributes(df[i])])
               /\ \A j \in 1..Len(excel_df) :
                      DOMAIN files[Len(files)][j] = RawColumns \cup ScoreColumns

\* a written table of three rows in two categories
C7_Witness ==
    /\ pc = "done"
    /\ Valid(df)
    /\ Len(df) = 3
    /\ Len(category_dataframes) = 2
    /\ files # <<>>
    /\ Len(files[Len(files)]) = 3

Unfit(t) ==
    \/ t = <<>>
    \/ \E i \in 1..Len(t) :
           \/ t[i]["category_name"] = NaC
           \/ \E m \in Metrics : isna(t[i][m])

\* C8: a run whose table is empty at the scoring stage, or has a row there
\* with an undefined metric or category, ends with an error and writes
\* nothing.
C8_AllOrNothing ==
    (pc = "done" /\ run > 0 /\ Unfit(df)) =>
        /\ stdout[run] = "An error occurred"
        /\ files = <<>>

InputA == responses[1].text

InputB == responses[2].text

BothWritten == Len(responses) = 2 /\ run = 2 /\ pc = "done" /\ Len(files) = 2

InCategory(t, c) == SelectSeq(t, LAMBDA r : r["category_name"] = c)

\* the category labels of the tables, raw and as written
PairLabels == {<<"Liquid", "liquid">>, <<"Value", "value">>}

\* C6: when the tables of two runs agree on the rows of a category, the rows
\* of that category are written with the same scores by both runs, whatever
\* the rows of the other categories are.
C6_NonInterference ==
    BothWritten =>
        \A l \in PairLabels :
            InCategory(InputA, l[1]) = InCategory(InputB, l[1]) =>
                InCategory(files[1], l[2]) = InCategory(files[2], l[2])

\* two runs that agree on a category of two rows with different scores and
\* differ in the other category
C6_Witness ==
    /\ BothWritten
    /\ \E l, o \in PairLabels :
           /\ InCategory(InputA, l[1]) = InCategory(InputB, l[1])
           /\ InCategory(InputA, o[1]) # InCategory(InputB, o[1])
           /\ InCategory(InputA, o[1]) # <<>>
           /\ InCategory(InputB, o[1]) # <<>>
           /\ Len(InCategory(files[1], l[2])) = 2
           /\ InCategory(files[1], l[2])[1]["total_score"]
                  # InCategory(files[1], l[2])[2]["total_score"]

IsPermutation(s, t) ==
    /\ Len(s) = Len(t)
    /\ \E p \in Permutations(1..Len(s)) : \A i \in 1..Len(s) : t[i] = s[p[i]]

\* C9: when the table of the second run is the table of the first with its
\* rows in another order, every record is written with the same three scores
\* by both runs.
C9_OrderIndependent ==
    (BothWritten /\ IsPermutation(InputA, InputB)) => SameBag(files[1], files[2])

\* two runs on the same rows in different orders, two rows of one category
\* with different scores
C9_Witness ==
    /\ BothWritten
    /\ IsPermutation(InputA, InputB)
    /\ InputA # InputB
    /\ \E i, j \in 1..Len(files[1]) :
           /\ files[1][i]["category_name"] = files[1][j]["category_name"]
           /\ files[1][i]["total_score"] # files[1][j]["total_score"]

Dominates(a, b) ==
    /\ a["category_name"] = b["category_name"]
    /\ \A m \in Metrics : a[m] >= b[m]

IsRaise(s, t) ==
    /\ Len(s) = Len(t)
    /\ \E i \in 1..Len(s), m \in Metrics :
           /\ t[i][m] > s[i][m]
           /\ t = [s EXCEPT ![i] = WithColumn(s[i], m, t[i][m])]

\* C10: in every written file a record that is >= another record of its
\* category on each of the five metrics has a return score, a risk score and
\* a total_score >= the other's; and when the second run's table is the
\* first's with one metric of one record raised, that record's total_score
\* in the second file is >= its total_score in the first.
C10_Monotone ==
    /\ \A f \in 1..Len(files) :
           \A i, j \in 1..Len(files[f]) :
               Dominates(files[f][i], files[f][j]) =>
                   /\ Leq(files[f][j]["return_score_max_eighty"],
                          files[f][i]["return_score_max_eighty"])
                   /\ Leq(files[f][j]["risk_score_max_twenty"],
                          files[f][i]["risk_score_max_twenty"])
                   /\ Leq(files[f][j]["total_score"], files[f][i]["total_score"])
    /\ (BothWritten /\ IsRaise(InputA, InputB)) =>
           /\ \E j \in 1..Len(files[1]) :
                  Attributes(files[1][j]) # Attributes(files[2][j])
           /\ \A j \in 1..Len(files[1]) :
                  Attributes(files[1][j]) # Attributes(files[2][j]) =>
                      Leq(files[1][j]["total_score"], files[2][j]["total_score"])

\* a record raised between the runs in a group of two, its total_score
\* higher in the second file, where it dominates the other record
C10_Witness ==
    /\ BothWritten
    /\ IsRaise(InputA, InputB)
    /\ \E j, k \in 1..Len(files[1]) :
           /\ j # k
           /\ Attributes(files[1][j]) # Attributes(files[2][j])
           /\ files[1][j]["total_score"] # files[2][j]["total_score"]
           /\ Dominates(files[2][j], files[2][k])
           /\ files[2][j]["total_score"] # files[2][k]["total_score"]

====
